---- MODULE Spec2Model ----
(***************************************************************************)
(* Sudoku Killer solver of main.py (resolver_sudoku_killer): the program   *)
(* creates one bounded integer variable per cell in a Z3 solver, asserts   *)
(* row, column, sub-block and cage constraints, and then enumerates the    *)
(* models of the assertions, asserting after each one a clause that        *)
(* excludes it.                                                            *)
(***************************************************************************)
EXTENDS Integers, Sequences, FiniteSets, TLC

VARIABLES
  dimension_tablero,        \* argument of resolver_sudoku_killer
  restricciones,            \* argument: sequence of <<suma_objetivo, celdas_grupo>>
  variables_tablero,        \* dict: 0-based key <<fila, columna>> -> Z3 variable
  solucionador,             \* the solver's assertions, in the order they were added
  soluciones_encontradas,   \* counter of the enumeration loop
  salida,                   \* the boards printed so far, one per solution
  reporte,                  \* the final line printed, "" before it is printed
  pc,                       \* position in resolver_sudoku_killer
  paso                      \* iterations completed of the loop pc is in

vars == <<dimension_tablero, restricciones, variables_tablero, solucionador,
          soluciones_encontradas, salida, reporte, pc, paso>>

(***************************************************************************)
(* Bounds of the inputs explored.                                          *)
(***************************************************************************)
MaxDim == 4          \* board dimensions 0..MaxDim
MaxQuitar == 1       \* cages removed from a dimension's base cage list

(***************************************************************************)
(* The instance of the source: restricciones_sudoku and dimension.         *)
(***************************************************************************)
restricciones_sudoku == <<
  <<8,  << <<1, 1>>, <<2, 1>> >> >>,
  <<24, << <<1, 2>>, <<1, 3>>, <<2, 3>> >> >>,
  <<9,  << <<1, 4>>, <<2, 4>> >> >>,
  <<14, << <<1, 5>>, <<1, 6>>, <<1, 7>> >> >>,
  <<15, << <<1, 8>>, <<1, 9>>, <<2, 8>>, <<2, 9>> >> >>,
  <<6,  << <<2, 2>>, <<3, 2>> >> >>,
  <<15, << <<2, 5>>, <<2, 6>>, <<2, 7>> >> >>,
  <<11, << <<3, 1>>, <<4, 1>>, <<4, 2>> >> >>,
  <<16, << <<3, 3>>, <<3, 4>>, <<3, 5>> >> >>,
  <<19, << <<3, 6>>, <<3, 7>>, <<3, 8>>, <<4, 6>> >> >>,
  <<17, << <<3, 9>>, <<4, 9>> >> >>,
  <<23, << <<4, 3>>, <<5, 2>>, <<5, 3>>, <<6, 2>>, <<6, 3>> >> >>,
  <<8,  << <<4, 4>>, <<5, 4>> >> >>,
  <<8,  << <<4, 5>>, <<5, 5>> >> >>,
  <<19, << <<4, 7>>, <<4, 8>>, <<5, 8>> >> >>,
  <<15, << <<5, 1>>, <<6, 1>> >> >>,
  <<7,  << <<5, 6>>, <<5, 7>> >> >>,
  <<7,  << <<5, 9>>, <<6, 9>> >> >>,
  <<17, << <<6, 4>>, <<6, 5>> >> >>,
  <<8,  << <<6, 6>>, <<6, 7>> >> >>,
  <<14, << <<6, 8>>, <<7, 8>>, <<7, 9>> >> >>,
  <<16, << <<7, 1>>, <<8, 1>>, <<8, 2>> >> >>,
  <<17, << <<7, 2>>, <<7, 3>>, <<7, 4>> >> >>,
  <<10, << <<7, 5>>, <<7, 6>> >> >>,
  <<21, << <<7, 7>>, <<8, 7>>, <<8, 8>>, <<8, 9>> >> >>,
  <<8,  << <<8, 3>>, <<8, 4>>, <<8, 5>> >> >>,
  <<22, << <<8, 6>>, <<9, 4>>, <<9, 5>>, <<9, 6>> >> >>,
  <<17, << <<9, 1>>, <<9, 2>>, <<9, 3>> >> >>,
  <<14, << <<9, 7>>, <<9, 8>>, <<9, 9>> >> >> >>

dimension == 9

(***************************************************************************)
(* Helpers on sequences and sets of integers.                              *)
(***************************************************************************)
Rango(s) == {s[i] : i \in 1..Len(s)}

RECURSIVE SumaSeq(_)
SumaSeq(s) == IF s = <<>> THEN 0 ELSE Head(s) + SumaSeq(Tail(s))

Minimo(S) == CHOOSE v \in S : \A w \in S : v <= w
Maximo(S) == CHOOSE v \in S : \A w \in S : v >= w

QuitarEn(s, i) == [j \in 1..(Len(s) - 1) |-> IF j < i THEN s[j] ELSE s[j + 1]]

(***************************************************************************)
(* Z3 expressions.  A Z3 integer variable is identified by its name; the   *)
(* name "celda[f,c]" is modelled by the pair <<f, c>> of its two indices.  *)
(* An assertion is a record: op is the operator, vars its variables in     *)
(* order, k its integer constant, vals the values of a blocking clause.    *)
(***************************************************************************)
IntVar(fila, columna) == <<fila, columna>>

Ge(variable, k) == [op |-> "ge", vars |-> <<variable>>, k |-> k, vals |-> <<>>]
Le(variable, k) == [op |-> "le", vars |-> <<variable>>, k |-> k, vals |-> <<>>]
Distinct(lista) == [op |-> "distinct", vars |-> lista, k |-> 0, vals |-> <<>>]
SumEq(lista, k) == [op |-> "sum", vars |-> lista, k |-> k, vals |-> <<>>]
OrNe(lista, valores) == [op |-> "or_ne", vars |-> lista, k |-> 0, vals |-> valores]

\* The truth of assertion c under the interpretation a (variable -> integer).
Holds(c, a) ==
  CASE c.op = "ge" -> a[c.vars[1]] >= c.k
    [] c.op = "le" -> a[c.vars[1]] <= c.k
    [] c.op = "distinct" ->
         \A i, j \in 1..Len(c.vars) : i < j => a[c.vars[i]] # a[c.vars[j]]
    [] c.op = "sum" -> SumaSeq([i \in 1..Len(c.vars) |-> a[c.vars[i]]]) = c.k
    [] c.op = "or_ne" -> \E i \in 1..Len(c.vars) : a[c.vars[i]] # c.vals[i]

(***************************************************************************)
(* Solver.check() and Solver.model().  Z3 answers sat exactly when some    *)
(* interpretation of the variables satisfies every assertion, and model()  *)
(* is then one such interpretation; which one is not specified.  Models    *)
(* is the set of all of them.  It is computed by a search over the finite  *)
(* domains the ge/le assertions leave: domains are narrowed by consequences*)
(* of the assertions (a value fixed in a Distinct is removed from the      *)
(* other members; bounds of linear equations implied by the sums), the     *)
(* smallest open domain is split, and every complete interpretation is     *)
(* kept only if Holds of every assertion.                                  *)
(***************************************************************************)
NombresDe(asserts) == UNION {Rango(asserts[i].vars) : i \in 1..Len(asserts)}

OpsDe(asserts, op) == {i \in 1..Len(asserts) : asserts[i].op = op}

Veces(s, x) == Cardinality({i \in 1..Len(s) : s[i] = x})

\* The interval the ge/le assertions leave to variable x.
CotaInf(asserts, x) ==
  Maximo({asserts[i].k : i \in {j \in OpsDe(asserts, "ge") : asserts[j].vars[1] = x}})
CotaSup(asserts, x) ==
  Minimo({asserts[i].k : i \in {j \in OpsDe(asserts, "le") : asserts[j].vars[1] = x}})

\* Variables that share a Distinct with x at another position.
VecinosDe(asserts, x) ==
  UNION {IF Veces(asserts[i].vars, x) = 0 THEN {}
         ELSE IF Veces(asserts[i].vars, x) = 1 THEN Rango(asserts[i].vars) \ {x}
         ELSE Rango(asserts[i].vars) : i \in OpsDe(asserts, "distinct")}

\* A linear equation: SUM co[x] * x = rhs over the variables of DOMAIN co.
EcSuma(c) == [co |-> [x \in Rango(c.vars) |-> Veces(c.vars, x)], rhs |-> c.k]

\* A Distinct over as many variables as their common interval has values
\* takes every value of the interval once, so its sum is known.
EsCasa(c, lo, hi) ==
  /\ c.op = "distinct"
  /\ Len(c.vars) > 0
  /\ Cardinality(Rango(c.vars)) = Len(c.vars)
  /\ \A x \in Rango(c.vars) : lo[x] = lo[c.vars[1]] /\ hi[x] = hi[c.vars[1]]
  /\ hi[c.vars[1]] - lo[c.vars[1]] + 1 = Len(c.vars)

EcCasa(c, lo, hi) ==
  [co |-> [x \in Rango(c.vars) |-> 1],
   rhs |-> ((lo[c.vars[1]] + hi[c.vars[1]]) * Len(c.vars)) \div 2]

CoefDe(e, x) == IF x \in DOMAIN e.co THEN e.co[x] ELSE 0

RECURSIVE SumaSobre(_, _)
SumaSobre(f, S) ==
  IF S = {} THEN 0
  ELSE LET x == CHOOSE y \in S : TRUE IN f[x] + SumaSobre(f, S \ {x})

\* The equation (sum of the equations of mas) - (sum of those of menos).
Combinar(mas, menos) ==
  LET sop == UNION {DOMAIN e.co : e \in mas \cup menos}
      c == [x \in sop |-> SumaSobre([e \in mas |-> CoefDe(e, x)], mas)
                           - SumaSobre([e \in menos |-> CoefDe(e, x)], menos)]
      nz == {x \in sop : c[x] # 0}
  IN [co |-> [x \in nz |-> c[x]],
      rhs |-> SumaSobre([e \in mas |-> e.rhs], mas)
               - SumaSobre([e \in menos |-> e.rhs], menos)]

\* Equations implied by bands of rows (k = 1) or columns (k = 2): the band's
\* houses minus the sums lying inside it, and minus the sums touching it.
Bandas(casas, sumas, k) ==
  LET linea(h) == (CHOOSE x \in DOMAIN h.co : TRUE)[k]
      lineas == {h \in casas : \A x \in DOMAIN h.co : x[k] = linea(h)}
      idx == {linea(h) : h \in lineas}
      banda(a, b) == {h \in lineas : a <= linea(h) /\ linea(h) <= b}
      celdas(a, b) == UNION {DOMAIN h.co : h \in banda(a, b)}
      dentro(a, b) == {e \in sumas : DOMAIN e.co \subseteq celdas(a, b)}
      tocan(a, b) == {e \in sumas : DOMAIN e.co \cap celdas(a, b) # {}}
  IN UNION {{Combinar(banda(ab[1], ab[2]), dentro(ab[1], ab[2])),
             Combinar(banda(ab[1], ab[2]), tocan(ab[1], ab[2]))}
            : ab \in {p \in idx \X idx : p[1] <= p[2]}}

Ecuaciones(asserts, lo, hi) ==
  LET sumas == {EcSuma(asserts[i]) : i \in OpsDe(asserts, "sum")}
      casas == {EcCasa(asserts[i], lo, hi) :
                  i \in {j \in OpsDe(asserts, "distinct") : EsCasa(asserts[j], lo, hi)}}
      impl == {e \in Bandas(casas, sumas, 1) \cup Bandas(casas, sumas, 2) :
                 DOMAIN e.co # {} /\ Cardinality(DOMAIN e.co) <= 6}
  IN sumas \cup impl

RECURSIVE EnOrden(_)
EnOrden(S) ==
  IF S = {} THEN <<>>
  ELSE LET x == CHOOSE y \in S : TRUE IN <<x>> \o EnOrden(S \ {x})

\* What the search works on.  Variables and equations are numbered: vs[i] is
\* the i-th variable, dom[i] its interval, vecinos[i] its neighbours in
\* Distincts, ecs[j] the j-th equation (over variable numbers) and ecsDe[i]
\* the equations variable i occurs in.
Preparar(asserts) ==
  LET nombres == NombresDe(asserts)
      vs == EnOrden(nombres)
      N == Len(vs)
      pos == [x \in nombres |-> CHOOSE i \in 1..N : vs[i] = x] @@ <<>>
      lo == [x \in nombres |-> CotaInf(asserts, x)] @@ <<>>
      hi == [x \in nombres |-> CotaSup(asserts, x)] @@ <<>>
      porNombre == EnOrden(Ecuaciones(asserts, lo, hi))
      ecs == [j \in 1..Len(porNombre) |->
                [co |-> [i \in {pos[x] : x \in DOMAIN porNombre[j].co} |->
                           porNombre[j].co[vs[i]]] @@ <<>>,
                 rhs |-> porNombre[j].rhs]] @@ <<>>
  IN [vs |-> vs,
      dom |-> [i \in 1..N |-> lo[vs[i]]..hi[vs[i]]] @@ <<>>,
      vecinos |-> [i \in 1..N |-> {pos[y] : y \in VecinosDe(asserts, vs[i])}] @@ <<>>,
      ecs |-> ecs,
      ecsDe |-> [i \in 1..N |-> {j \in 1..Len(ecs) : i \in DOMAIN ecs[j].co}] @@ <<>>]

\* One round of narrowing after the domains of the variables in sucias have
\* changed: only the equations and the neighbours of those variables can
\* narrow a domain further.  Every domain is narrowed from the domains of the
\* round before.
Estrechar(P, dom, sucias) ==
  LET afectadas == UNION {P.ecsDe[i] : i \in sucias}
      region == UNION {P.vecinos[i] : i \in sucias}
                  \cup UNION {DOMAIN P.ecs[j].co : j \in afectadas}
      bajo(j, y) == IF P.ecs[j].co[y] > 0 THEN P.ecs[j].co[y] * Minimo(dom[y])
                                           ELSE P.ecs[j].co[y] * Maximo(dom[y])
      alto(j, y) == IF P.ecs[j].co[y] > 0 THEN P.ecs[j].co[y] * Maximo(dom[y])
                                           ELSE P.ecs[j].co[y] * Minimo(dom[y])
      L == [j \in afectadas |->
              SumaSobre([y \in DOMAIN P.ecs[j].co |-> bajo(j, y)], DOMAIN P.ecs[j].co)] @@ <<>>
      H == [j \in afectadas |->
              SumaSobre([y \in DOMAIN P.ecs[j].co |-> alto(j, y)], DOMAIN P.ecs[j].co)] @@ <<>>
      fijos(i) == UNION {dom[y] : y \in {z \in P.vecinos[i] \cap sucias :
                                           Cardinality(dom[z]) = 1}}
      \* <<c, a, b>>: equation j leaves a <= c * v <= b to the value v of i
      cotas(i) == {<<P.ecs[j].co[i], P.ecs[j].rhs - (H[j] - alto(j, i)),
                     P.ecs[j].rhs - (L[j] - bajo(j, i))>> : j \in P.ecsDe[i] \cap afectadas}
      resto(i, fs, cs) ==
        {v \in dom[i] \ fs : \A t \in cs : t[2] <= t[1] * v /\ t[1] * v <= t[3]}
  IN [i \in 1..Len(P.vs) |->
        IF i \in region THEN resto(i, fijos(i), cotas(i)) ELSE dom[i]] @@ <<>>

\* Narrowing to a fixed point; <<>> when some domain becomes empty.
RECURSIVE Propagar(_, _, _)
Propagar(P, dom, sucias) ==
  IF sucias = {} THEN dom
  ELSE LET nd == Estrechar(P, dom, sucias)
       IN IF \E i \in 1..Len(P.vs) : nd[i] = {} THEN <<>>
          ELSE Propagar(P, nd, {i \in 1..Len(P.vs) : nd[i] # dom[i]})

\* The models within the domains dom, whose fixed point is to be taken
\* after the change of the variables in sucias.
RECURSIVE Buscar(_, _, _, _)
Buscar(asserts, P, dom, sucias) ==
  LET d == Propagar(P, dom, sucias)
  IN IF d = <<>> THEN {}
     ELSE LET abiertas == {i \in 1..Len(P.vs) : Cardinality(d[i]) > 1}
          IN IF abiertas = {}
             THEN LET a == [x \in Rango(P.vs) |->
                              Minimo(d[CHOOSE i \in 1..Len(P.vs) : P.vs[i] = x])] @@ <<>>
                  IN IF \A i \in 1..Len(asserts) : Holds(asserts[i], a) THEN {a} ELSE {}
             ELSE LET m == Minimo({Cardinality(d[i]) : i \in abiertas})
                      x == CHOOSE y \in abiertas : Cardinality(d[y]) = m
                  IN UNION {Buscar(asserts, P, [d EXCEPT ![x] = {v}], {x}) : v \in d[x]}

\* Lines 102-104 by the solver's contract: check() is sat exactly when the
\* assertions have a model, and model() is one of their models.  The solver
\* is SolverFor("QF_FD") over variables bounded by lines 37-38, so check() is
\* taken to decide every assertion list (it does not answer unknown).
Models(asserts) ==
  LET P == Preparar(asserts)
  IN IF Len(P.vs) = 0 THEN {<<>>}
     ELSE IF \E i \in 1..Len(P.vs) : P.dom[i] = {} THEN {}
     ELSE Buscar(asserts, P, P.dom, 1..Len(P.vs))

(***************************************************************************)
(* The constraints resolver_sudoku_killer builds.                          *)
(***************************************************************************)
\* crear_variable_entera with the lower bound one too low.
crear_variable_desde_cero(nombre_variable, valor_minimo, valor_maximo) ==
  <<Ge(nombre_variable, valor_minimo - 1), Le(nombre_variable, valor_maximo)>>

\* crear_variable_entera: the assertions added for the new variable.
crear_variable_entera(nombre_variable, valor_minimo, valor_maximo) ==
  <<Ge(nombre_variable, valor_minimo), Le(nombre_variable, valor_maximo)>>

\* agregar_restriccion_jaula: the assertions added for a cage.
agregar_restriccion_jaula(celdas_grupo, suma_objetivo) ==
  <<SumEq(celdas_grupo, suma_objetivo), Distinct(celdas_grupo)>>

\* int(dimension_tablero ** 0.5)
Subcuadricula(n) == CHOOSE s \in 0..n : s * s <= n /\ (s + 1) * (s + 1) > n

\* Lines 70-72: the key of the paso-th cell created, fila-major.
ClaveDe(n, k) == <<k \div n, k % n>>

\* Lines 72-77: the variable of the cell at key <<fila, columna>>.
VariableDe(clave) == IntVar(clave[1] + 1, clave[2] + 1)

\* Lines 81-82: Distinct over row fila, then Distinct over column fila.
RestriccionesFila(vt, n, fila) ==
  <<Distinct([columna \in 1..n |-> vt[<<fila, columna - 1>>]]),
    Distinct([columna \in 1..n |-> vt[<<columna - 1, fila>>]])>>

\* Lines 86-87: the values of range(0, n, sub).
Inicios(n, sub) == {i \in 0..(n - 1) : i % sub = 0}

\* Lines 86-91 with the sub-block's cells taken along the row fila_inicio.
ClavesSubcuadriculaEnFila(n, sub, k) ==
  LET porLado == Cardinality(Inicios(n, sub))
      fila_inicio == (k \div porLado) * sub
  IN [i \in 1..(sub * sub) |-> <<fila_inicio, i - 1>>]

\* Lines 86-91: the keys of the k-th sub-block visited (k from 0), r-major.
ClavesSubcuadricula(n, sub, k) ==
  LET porLado == Cardinality(Inicios(n, sub))
      fila_inicio == (k \div porLado) * sub
      columna_inicio == (k % porLado) * sub
  IN [i \in 1..(sub * sub) |->
        <<fila_inicio + ((i - 1) \div sub), columna_inicio + ((i - 1) % sub)>>]

\* Line 96 with fila and columna exchanged in the key.
ClavesJaulaTraspuestas(celdas_grupo) ==
  [i \in 1..Len(celdas_grupo) |-> <<celdas_grupo[i][2] - 1, celdas_grupo[i][1] - 1>>]

\* Line 96 with the column not moved to the 0-based key.
ClavesJaulaSinDesplazar(celdas_grupo) ==
  [i \in 1..Len(celdas_grupo) |-> <<celdas_grupo[i][1] - 1, celdas_grupo[i][2]>>]

\* Line 96: the keys a cage's 1-based coordinates are looked up with.
ClavesJaula(celdas_grupo) ==
  [i \in 1..Len(celdas_grupo) |-> <<celdas_grupo[i][1] - 1, celdas_grupo[i][2] - 1>>]

\* Line 96 with jaula kept from one cage to the next: the variables of the
\* cages 1..k.
RECURSIVE JaulaAcumulada(_, _, _)
JaulaAcumulada(vt, lista, k) ==
  IF k = 0 THEN <<>>
  ELSE JaulaAcumulada(vt, lista, k - 1) \o
         [i \in 1..Len(lista[k][2]) |-> vt[<<lista[k][2][i][1] - 1, lista[k][2][i][2] - 1>>]]

\* Line 96: jaula, the variables of the k-th cage of the list.
Jaula(vt, lista, k) ==
  LET claves == ClavesJaula(lista[k][2])
  IN [i \in 1..Len(claves) |-> vt[claves[i]]]

\* Lines 113-117 left out: no clause is asserted.
BloqueoOmitido(vt, n, modelo) == <<>>

\* Lines 113-117 with the clause over the first cell only.
BloqueoPrimeraCelda(vt, n, modelo) ==
  <<OrNe(<<vt[<<0, 0>>]>>, <<modelo[vt[<<0, 0>>]]>>)>>

\* Lines 113-117: the clause excluding model modelo.
Bloqueo(vt, n, modelo) ==
  LET celdas == [i \in 1..(n * n) |-> vt[ClaveDe(n, i - 1)]]
  IN <<OrNe(celdas, [i \in 1..(n * n) |-> modelo[celdas[i]]])>>

\* Lines 108-109: the board printed for model modelo, row by row.
Tablero(vt, n, modelo) ==
  [fila \in 1..n |-> [columna \in 1..n |-> modelo[vt[<<fila - 1, columna - 1>>]]]]

RECURSIVE Aplanar(_, _)
Aplanar(f, k) == IF k = 0 THEN <<>> ELSE Aplanar(f, k - 1) \o f[k]

\* Lines 70-77 in full: the dict once every cell has its variable.
TodasLasVariables(n) ==
  [clave \in {ClaveDe(n, k) : k \in 0..(n * n - 1)} |-> VariableDe(clave)]

\* Lines 64-97 in full, for an input whose construction raises nothing: the
\* assertions of the solver when the enumeration loop is first reached.
Construir(n, lista) ==
  LET vt == TodasLasVariables(n)
      sub == Subcuadricula(n)
      bloques == Cardinality(Inicios(n, sub)) * Cardinality(Inicios(n, sub))
  IN Aplanar([k \in 1..(n * n) |->
                crear_variable_entera(VariableDe(ClaveDe(n, k - 1)), 1, n)], n * n)
     \o Aplanar([k \in 1..n |-> RestriccionesFila(vt, n, k - 1)], n)
     \o Aplanar([k \in 1..bloques |->
                   LET claves == ClavesSubcuadricula(n, sub, k - 1)
                   IN <<Distinct([i \in 1..Len(claves) |-> vt[claves[i]]])>>], bloques)
     \o Aplanar([k \in 1..Len(lista) |->
                   agregar_restriccion_jaula(Jaula(vt, lista, k), lista[k][1])], Len(lista))

\* Whether lines 64-97 raise nothing for the input: range(0, n, 0) does not
\* occur and every key looked up is a key of the dict.
ConstruccionPosible(n, lista) ==
  /\ Subcuadricula(n) > 0
  /\ \A k \in 0..(Cardinality(Inicios(n, Subcuadricula(n)))
                    * Cardinality(Inicios(n, Subcuadricula(n))) - 1) :
        Rango(ClavesSubcuadricula(n, Subcuadricula(n), k)) \subseteq DOMAIN TodasLasVariables(n)
  /\ \A k \in 1..Len(lista) :
        Rango(ClavesJaula(lista[k][2])) \subseteq DOMAIN TodasLasVariables(n)

(***************************************************************************)
(* The inputs explored.  Each dimension has a base cage list with exactly  *)
(* one solution; an input is a base list with up to MaxQuitar cages        *)
(* removed and at most one further cage appended: a cage with target 0, a  *)
(* cage whose target no cell can reach, a cage naming a cell twice, or a   *)
(* cage with a cell outside the board.                                     *)
(***************************************************************************)
JaulasBase(n) ==
  CASE n = 1 -> << <<1, << <<1, 1>> >> >> >>
    [] n = 2 -> << <<3, << <<1, 1>>, <<2, 1>> >> >>,
                   <<1, << <<1, 1>> >> >> >>
    [] n = 3 -> << <<5, << <<1, 2>>, <<2, 2>> >> >>,
                   <<3, << <<3, 3>> >> >>,
                   <<5, << <<2, 1>>, <<2, 2>> >> >> >>
    [] n = 4 -> << <<4, << <<1, 1>>, <<2, 1>> >> >>,
                   <<7, << <<1, 2>>, <<1, 3>> >> >>,
                   <<3, << <<1, 4>>, <<2, 4>> >> >>,
                   <<7, << <<2, 2>>, <<3, 2>>, <<2, 3>> >> >>,
                   <<6, << <<3, 1>>, <<4, 1>> >> >>,
                   <<6, << <<3, 3>>, <<4, 3>>, <<4, 2>> >> >>,
                   <<7, << <<3, 4>>, <<4, 4>> >> >> >>
    [] OTHER -> <<>>

JaulasExtra(n) ==
  { <<0, << <<1, 1>> >> >>,
    <<0, << <<1, 1>>, <<1, 2>> >> >>,
    <<n + 1, << <<1, 2>> >> >>,
    <<2, << <<1, 1>>, <<1, 1>> >> >>,
    <<1, << <<n + 1, 1>> >> >>,
    <<1, << <<0, 1>> >> >> }

RECURSIVE Recortes(_, _)
Recortes(lista, k) ==
  IF k = 0 THEN {lista}
  ELSE {lista} \cup UNION {Recortes(QuitarEn(lista, i), k - 1) : i \in 1..Len(lista)}

Entradas(n) ==
  LET recortes == Recortes(JaulasBase(n), MaxQuitar)
  IN recortes \cup {Append(lista, extra) : lista \in recortes, extra \in JaulasExtra(n)}

(***************************************************************************)
(* Initial states: the call resolver_sudoku_killer(restricciones, n).      *)
(***************************************************************************)
Arranque(n, lista) ==
  /\ dimension_tablero = n
  /\ restricciones = lista
  /\ variables_tablero = <<>>
  /\ solucionador = <<>>
  /\ soluciones_encontradas = 0
  /\ salida = <<>>
  /\ reporte = ""
  /\ pc = "variables"
  /\ paso = 0

Init == \E n \in 0..MaxDim : \E lista \in Entradas(n) : Arranque(n, lista)

\* The call at line 162.
InitFuente == Arranque(dimension, restricciones_sudoku)

(***************************************************************************)
(* resolver_sudoku_killer, one action per loop of the function.            *)
(***************************************************************************)
\* Lines 70-77: one iteration creates the variable of one cell.
CrearVariables ==
  /\ pc = "variables"
  /\ IF paso < dimension_tablero * dimension_tablero
     THEN LET clave == ClaveDe(dimension_tablero, paso)
          IN /\ variables_tablero' = (clave :> VariableDe(clave)) @@ variables_tablero
             /\ solucionador' = solucionador \o
                  crear_variable_entera(VariableDe(clave), 1, dimension_tablero)
             /\ paso' = paso + 1
             /\ pc' = pc
     ELSE /\ pc' = "filas"
          /\ paso' = 0
          /\ UNCHANGED <<variables_tablero, solucionador>>
  /\ UNCHANGED <<dimension_tablero, restricciones, soluciones_encontradas, salida, reporte>>

\* Lines 80-82: one iteration constrains one row and one column.
RestringirFilas ==
  /\ pc = "filas"
  /\ IF paso < dimension_tablero
     THEN /\ solucionador' = solucionador \o
               RestriccionesFila(variables_tablero, dimension_tablero, paso)
          /\ paso' = paso + 1
          /\ pc' = pc
     ELSE \* line 85, and range(0, n, 0) raises ValueError
          /\ pc' = IF Subcuadricula(dimension_tablero) = 0 THEN "error" ELSE "subcuadriculas"
          /\ paso' = 0
          /\ UNCHANGED solucionador
  /\ UNCHANGED <<dimension_tablero, restricciones, variables_tablero,
                 soluciones_encontradas, salida, reporte>>

\* Lines 86-92: one iteration constrains one sub-block; a key that is not in
\* variables_tablero raises KeyError.
RestringirSubcuadriculas ==
  /\ pc = "subcuadriculas"
  /\ LET sub == Subcuadricula(dimension_tablero)
         porLado == Cardinality(Inicios(dimension_tablero, sub))
         claves == ClavesSubcuadricula(dimension_tablero, sub, paso)
     IN IF paso < porLado * porLado
        THEN IF Rango(claves) \subseteq DOMAIN variables_tablero
             THEN /\ solucionador' = solucionador \o
                       <<Distinct([i \in 1..Len(claves) |-> variables_tablero[claves[i]]])>>
                  /\ paso' = paso + 1
                  /\ pc' = pc
             ELSE /\ pc' = "error"
                  /\ UNCHANGED <<solucionador, paso>>
        ELSE /\ pc' = "jaulas"
             /\ paso' = 0
             /\ UNCHANGED solucionador
  /\ UNCHANGED <<dimension_tablero, restricciones, variables_tablero,
                 soluciones_encontradas, salida, reporte>>

\* Lines 95-97: one iteration adds one cage; a cell outside the board raises
\* KeyError.  Line 100 follows the loop.
AgregarJaulas ==
  /\ pc = "jaulas"
  /\ IF paso < Len(restricciones)
     THEN IF Rango(ClavesJaula(restricciones[paso + 1][2])) \subseteq DOMAIN variables_tablero
          THEN /\ solucionador' = solucionador \o
                    agregar_restriccion_jaula(Jaula(variables_tablero, restricciones, paso + 1),
                                              restricciones[paso + 1][1])
               /\ paso' = paso + 1
               /\ pc' = pc
          ELSE /\ pc' = "error"
               /\ UNCHANGED <<solucionador, paso>>
     ELSE /\ pc' = "check"
          /\ paso' = 0
          /\ UNCHANGED solucionador
  /\ UNCHANGED <<dimension_tablero, restricciones, variables_tablero,
                 soluciones_encontradas, salida, reporte>>

\* Lines 102-117: the loop test and, when it is sat, one iteration: count,
\* print the model, assert the clause that excludes it.
Enumerar ==
  /\ pc = "check"
  /\ LET modelos == Models(solucionador)
     IN IF modelos = {}
        THEN /\ pc' = "reportar"
             /\ UNCHANGED <<solucionador, soluciones_encontradas, salida>>
        ELSE \E modelo \in modelos :
               /\ soluciones_encontradas' = soluciones_encontradas + 1
               /\ salida' = Append(salida, Tablero(variables_tablero, dimension_tablero, modelo))
               /\ solucionador' = solucionador \o
                    Bloqueo(variables_tablero, dimension_tablero, modelo)
               /\ pc' = pc
  /\ UNCHANGED <<dimension_tablero, restricciones, variables_tablero, reporte, paso>>

\* Lines 120-123: the final line.
Reportar ==
  /\ pc = "reportar"
  /\ reporte' = IF soluciones_encontradas = 0
                THEN "No se encontraron soluciones."
                ELSE "Total de soluciones encontradas"
  /\ pc' = "done"
  /\ UNCHANGED <<dimension_tablero, restricciones, variables_tablero, solucionador,
                 soluciones_encontradas, salida, paso>>

Next ==
  \/ CrearVariables
  \/ RestringirFilas
  \/ RestringirSubcuadriculas
  \/ AgregarJaulas
  \/ Enumerar
  \/ Reportar

Spec == Init /\ [][Next]_vars

\* The steps before and after the enumeration loop.
Secuencial ==
  \/ CrearVariables
  \/ RestringirFilas
  \/ RestringirSubcuadriculas
  \/ AgregarJaulas
  \/ Reportar

\* An iteration of the loop of lines 102-117 seen from outside: from the loop
\* test, control leaves the loop or one more solution is counted.  These are
\* the steps of Enumerar, which is enabled exactly when pc = "check" (check()
\* answers sat or unsat on every assertion list).
Iteracion ==
  /\ pc = "check"
  /\ \/ pc' = "reportar" /\ soluciones_encontradas' = soluciones_encontradas
     \/ pc' = "check" /\ soluciones_encontradas' = soluciones_encontradas + 1

\* The function runs to its end: the interpreter executes the next statement
\* of the single thread, and every call of check() returns.
FairSpec == Spec /\ WF_vars(Secuencial) /\ WF_<<pc, soluciones_encontradas>>(Iteracion)

\* The program as shipped: the call of line 162 on restricciones_sudoku.
SpecFuente == InitFuente /\ [][Next]_vars

(***************************************************************************)
(* What the claims speak of: boards, and the constraints of an input,      *)
(* stated on the printed board t (t[f][c] is the value at the 1-based      *)
(* coordinates (f, c) of the input).                                       *)
(***************************************************************************)
EsCuadrado(n) == \E s \in 0..n : s * s = n

ContieneCadaValor(valores, n) ==
  \A v \in 1..n : Cardinality({i \in DOMAIN valores : valores[i] = v}) = 1

FilaDe(t, f) == t[f]
ColumnaDe(t, n, c) == [f \in 1..n |-> t[f][c]]
\* the sub-block in block row bf and block column bc (from 0), side s
BloqueDe(t, s, bf, bc) ==
  [i \in 1..(s * s) |-> t[bf * s + ((i - 1) \div s) + 1][bc * s + ((i - 1) % s) + 1]]

SudokuValido(t, n) ==
  LET s == CHOOSE r \in 0..n : r * r = n
  IN /\ \A f \in 1..n : ContieneCadaValor(FilaDe(t, f), n)
     /\ \A c \in 1..n : ContieneCadaValor(ColumnaDe(t, n, c), n)
     /\ \A bf, bc \in 0..(s - 1) : ContieneCadaValor(BloqueDe(t, s, bf, bc), n)

ValoresJaula(t, jaula) == [i \in 1..Len(jaula[2]) |-> t[jaula[2][i][1]][jaula[2][i][2]]]

JaulaCumplida(t, jaula) ==
  LET valores == ValoresJaula(t, jaula)
  IN /\ \A i, j \in 1..Len(valores) : i < j => valores[i] # valores[j]
     /\ SumaSeq(valores) = jaula[1]

EnTablero(n, jaula) ==
  \A i \in 1..Len(jaula[2]) : jaula[2][i][1] \in 1..n /\ jaula[2][i][2] \in 1..n

Distintos(valores) ==
  \A i, j \in 1..Len(valores) : i < j => valores[i] # valores[j]

\* The n x n boards over 1..n whose rows and whose columns have distinct
\* values, built row by row.
RECURSIVE Latinos(_, _, _)
Latinos(n, filas, k) ==
  IF k = 0 THEN {<<>>}
  ELSE UNION {{Append(t, p) :
                 p \in {q \in filas : \A f \in 1..(k - 1) : \A c \in 1..n : t[f][c] # q[c]}}
              : t \in Latinos(n, filas, k - 1)}

\* Every board over 1..n that satisfies the row, column and sub-block
\* constraints of dimension n (sub-blocks of side floor(sqrt(n)), as built).
SudokusDe(n) ==
  LET filas == {q \in [1..n -> 1..n] : Distintos(q)}
      s == Subcuadricula(n)
      m == Cardinality(Inicios(n, s))
  IN {t \in Latinos(n, filas, n) :
        \A bf, bc \in 0..(m - 1) : Distintos(BloqueDe(t, s, bf, bc))}

Sudokus == [n \in {d \in 1..MaxDim : ConstruccionPosible(d, <<>>)} |-> SudokusDe(n)] @@ <<>>

\* Every board over 1..n that satisfies the row, column, sub-block and cage
\* constraints of the input.
Soluciones(n, lista) ==
  {t \in Sudokus[n] : \A j \in 1..Len(lista) : JaulaCumplida(t, lista[j])}

Terminado == pc \in {"done", "error"}

\* The boards a run on the input (n, lista) emits: by C4 and C10 the models
\* of the assertions built for it.
EmitidasCon(n, lista) ==
  {Tablero(TodasLasVariables(n), n, modelo) : modelo \in Models(Construir(n, lista))}

\* The clause that excludes board t: some cell differs from its value in t.
ClausulaContra(t, n) ==
  OrNe([i \in 1..(n * n) |-> IntVar(((i - 1) \div n) + 1, ((i - 1) % n) + 1)],
       [i \in 1..(n * n) |-> t[((i - 1) \div n) + 1][((i - 1) % n) + 1]])

EnEnumeracion == pc \in {"check", "reportar", "done"}

TieneJaulaCero ==
  \E j \in 1..Len(restricciones) :
    /\ restricciones[j][1] = 0
    /\ Len(restricciones[j][2]) >= 1
    /\ EnTablero(dimension_tablero, restricciones[j])

(***************************************************************************)
(* The claims.                                                             *)
(***************************************************************************)

\* C1: when the dimension n is a perfect square, every board emitted has all
\* its values in 1..n and every row, every column and every sqrt(n) x sqrt(n)
\* sub-block of it contains each value of 1..n exactly once.
C1_SudokuEmitido ==
  EsCuadrado(dimension_tablero) =>
    \A k \in 1..Len(salida) :
      /\ \A f, c \in 1..dimension_tablero : salida[k][f][c] \in 1..dimension_tablero
      /\ SudokuValido(salida[k], dimension_tablero)

C1_Testigo == dimension_tablero = 4 /\ Len(salida) >= 1 /\ pc = "done"

\* C2: in every board emitted, the values of the cells of every cage of the
\* input (read at the cage's 1-based coordinates) are pairwise distinct and
\* sum to the cage's target.
C2_JaulasCumplidas ==
  \A k \in 1..Len(salida) : \A j \in 1..Len(restricciones) :
    JaulaCumplida(salida[k], restricciones[j])

C2_Testigo ==
  /\ Len(salida) >= 1
  /\ \E j \in 1..Len(restricciones) : Len(restricciones[j][2]) >= 3

\* C3: no board is emitted twice: two boards emitted at different
\* iterations differ in the value of at least one cell.
C3_SinRepeticion ==
  \A i, j \in 1..Len(salida) :
    i < j => \E f, c \in 1..dimension_tablero : salida[i][f][c] # salida[j][f][c]

C3_Testigo == Len(salida) = 2 /\ salida[1] # salida[2]

\* C4: once the enumeration loop has exited, the boards emitted are exactly
\* the boards that satisfy the constraints of the input, the counter is their
\* number, and "no solutions" is reported exactly when that number is zero.
C4_EnumeracionCompleta ==
  /\ pc \in {"reportar", "done"} =>
       /\ Rango(salida) = Soluciones(dimension_tablero, restricciones)
       /\ soluciones_encontradas = Cardinality(Soluciones(dimension_tablero, restricciones))
  /\ pc = "done" =>
       (reporte = "No se encontraron soluciones."
          <=> Soluciones(dimension_tablero, restricciones) = {})

C4_Testigo ==
  /\ pc = "done"
  /\ soluciones_encontradas >= 2
  /\ reporte = "Total de soluciones encontradas"

\* C5: when construction succeeds the run never raises, the loop never runs
\* more iterations than the input has solutions, and every run ends.
C5_TerminaAcotado ==
  /\ [](ConstruccionPosible(dimension_tablero, restricciones) =>
          /\ pc # "error"
          /\ (pc = "check" =>
                soluciones_encontradas
                  <= Cardinality(Soluciones(dimension_tablero, restricciones))))
  /\ <>Terminado

C5_Testigo ==
  /\ pc = "done"
  /\ soluciones_encontradas = Cardinality(Soluciones(dimension_tablero, restricciones))
  /\ soluciones_encontradas >= 2

\* C6: the run on restricciones_sudoku with dimension 9 emits one solution
\* and no second one, and reports one solution at its end.
C6_UnaSolucion ==
  /\ soluciones_encontradas <= 1
  /\ pc = "done" =>
       /\ soluciones_encontradas = 1
       /\ Len(salida) = 1
       /\ reporte = "Total de soluciones encontradas"

C6_Testigo == pc = "done" /\ dimension_tablero = dimension /\ Len(salida) = 1

\* C7 as stated: the first row of every solution emitted for the shipped
\* instance is 4 1 6 8 3 2 5 9 7.
C7_PrimeraFilaDeclarada ==
  \A k \in 1..Len(salida) : salida[k][1] = <<4, 1, 6, 8, 3, 2, 5, 9, 7>>

\* C7 as amended: the first row of every solution emitted for the shipped
\* instance is 2 9 8 1 4 3 7 6 5.
C7_PrimeraFila ==
  \A k \in 1..Len(salida) : salida[k][1] = <<2, 9, 8, 1, 4, 3, 7, 6, 5>>

C7_Testigo == restricciones = restricciones_sudoku /\ Len(salida) = 1 /\ pc = "check"

\* C8: when the cage list has a cage with target 0 over one or more cells of
\* the board, no board is emitted, the counter stays zero and the run that
\* reaches its end reports "no solutions".
C8_JaulaCeroSinSolucion ==
  TieneJaulaCero =>
    /\ salida = <<>>
    /\ soluciones_encontradas = 0
    /\ pc = "done" => reporte = "No se encontraron soluciones."

C8_Testigo == TieneJaulaCero /\ pc = "done" /\ dimension_tablero >= 2

\* C9: at the end of a run, every board emitted is also emitted by the run on
\* the cage list with any single cage removed, so that run's count is at
\* least this run's.
C9_Monotona ==
  pc = "done" =>
    \A i \in 1..Len(restricciones) :
      /\ Rango(salida) \subseteq
           EmitidasCon(dimension_tablero, QuitarEn(restricciones, i))
      /\ soluciones_encontradas
           <= Cardinality(EmitidasCon(dimension_tablero, QuitarEn(restricciones, i)))

C9_Testigo ==
  /\ pc = "done"
  /\ soluciones_encontradas >= 1
  /\ \E i \in 1..Len(restricciones) :
       Cardinality(EmitidasCon(dimension_tablero, QuitarEn(restricciones, i)))
         > soluciones_encontradas

\* C10 as stated: during the enumeration the solver holds the assertions it
\* held when the enumeration started.
C10_SinClausulas ==
  EnEnumeracion => solucionador = Construir(dimension_tablero, restricciones)

\* C10 as amended: during the enumeration the solver holds the assertions it
\* held when the enumeration started, unchanged and in their order, followed
\* by one clause per board emitted, which excludes that board.
C10_BaseMasClausulas ==
  EnEnumeracion =>
    /\ Len(salida) = soluciones_encontradas
    /\ solucionador = Construir(dimension_tablero, restricciones)
         \o [k \in 1..Len(salida) |-> ClausulaContra(salida[k], dimension_tablero)]

C10_Testigo == pc = "check" /\ Len(salida) = 2 /\ dimension_tablero = 3

====
